---- MODULE Spec2Model ----
(***************************************************************************)
(* Alertmanager -> Google Chat webhook bridge.                             *)
(*                                                                         *)
(* The module models the /webhook request handler of main.go               *)
(* (handleWebhookWithProvider), the validator (validateAlertPayload), the  *)
(* transformer (convertToGoogleChatFormat and its helpers), the two        *)
(* Provider implementations (GoogleChatProvider, MockProvider) and the     *)
(* Prometheus metric vectors they touch.                                   *)
(*                                                                         *)
(* Go strings are TLA+ strings; a Go map[string]string is a function whose *)
(* DOMAIN is the set of keys (the nil map and the empty map are both the   *)
(* empty function); a Go slice is a sequence, so the Go index i is the     *)
(* position i + 1; a Go error is a string, the nil error is Nil.           *)
(***************************************************************************)
EXTENDS Integers, Sequences, FiniteSets, TLC

\* Longest alerts list a batch carries.
MaxAlerts == 2

\* Number of requests the server accepts in one behaviour.
MaxRequests == 2

Nil == "<nil>"

StatusOK == 200

StatusBadRequest == 400

StatusMethodNotAllowed == 405

StatusInternalServerError == 500

MethodPost == "POST"

(***************************************************************************)
(* Data model: AlertManagerPayload, Alert                                  *)
(***************************************************************************)

\* All maps with keys among `keys` and values among `vals`.
Maps(keys, vals) == UNION {[S -> vals] : S \in SUBSET keys}

\* All slices over S of length at most n.
SeqsUpTo(S, n) == UNION {[1..k -> S] : k \in 0..n}

\* time.Time values (UTC): the zero time and one instant.
Date(Y, M, D, h, m, s) == [Y |-> Y, M |-> M, D |-> D, h |-> h, m |-> m, s |-> s]

ZeroTime == Date(1, 1, 1, 0, 0, 0)

Times == {ZeroTime, Date(2024, 1, 15, 10, 30, 0)}

\* The fields of Alert the program reads (EndsAt and Fingerprint are decoded
\* and never read).
Alert(st, lb, an, t, url) ==
    [Status |-> st, Labels |-> lb, Annotations |-> an, StartsAt |-> t,
     GeneratorURL |-> url]

\* The fields of AlertManagerPayload the program reads (Receiver and
\* GroupLabels are decoded and never read).
AlertManagerPayload(st, al, cl, ca, url) ==
    [Status |-> st, Alerts |-> al, CommonLabels |-> cl,
     CommonAnnotations |-> ca, ExternalURL |-> url]

\* The zero value of AlertManagerPayload (var alertPayload AlertManagerPayload).
ZeroPayload == AlertManagerPayload("", <<>>, <<>>, <<>>, "")

(***************************************************************************)
(* Validator                                                               *)
(***************************************************************************)

\* validateAlerts with the two checks of the loop body swapped.
RECURSIVE validateAlerts_LabelsFirst(_, _)
validateAlerts_LabelsFirst(alerts, k) ==
    IF k > Len(alerts) THEN Nil
    ELSE IF DOMAIN alerts[k].Labels = {}
         THEN "alert " \o ToString(k - 1) \o " must have at least one label"
    ELSE IF alerts[k].Status = ""
         THEN "alert " \o ToString(k - 1) \o " status is required"
    ELSE validateAlerts_LabelsFirst(alerts, k + 1)

\* The loop of validateAlertPayload from position k on (Go index k - 1).
RECURSIVE validateAlerts(_, _)
validateAlerts(alerts, k) ==
    IF k > Len(alerts) THEN Nil
    ELSE IF alerts[k].Status = ""
         THEN "alert " \o ToString(k - 1) \o " status is required"
    ELSE IF DOMAIN alerts[k].Labels = {}
         THEN "alert " \o ToString(k - 1) \o " must have at least one label"
    ELSE validateAlerts(alerts, k + 1)

\* validateAlertPayload without the check of the alerts list.
validateAlertPayload_NoEmptyCheck(payload) ==
    IF payload.Status = "" THEN "status is required"
    ELSE validateAlerts(payload.Alerts, 1)

\* validateAlertPayload asking for more than one alert.
validateAlertPayload_TwoAlerts(payload) ==
    IF payload.Status = "" THEN "status is required"
    ELSE IF Len(payload.Alerts) <= 1 THEN "at least one alert is required"
    ELSE validateAlerts(payload.Alerts, 1)

validateAlertPayload(payload) ==
    IF payload.Status = "" THEN "status is required"
    ELSE IF Len(payload.Alerts) = 0 THEN "at least one alert is required"
    ELSE validateAlerts(payload.Alerts, 1)

(***************************************************************************)
(* Alert name                                                              *)
(***************************************************************************)

\* getAlertName looking at the first alert before the common labels.
getAlertName_FirstAlertWins(alertPayload) ==
    IF Len(alertPayload.Alerts) > 0
       /\ "alertname" \in DOMAIN alertPayload.Alerts[1].Labels
    THEN alertPayload.Alerts[1].Labels["alertname"]
    ELSE IF "alertname" \in DOMAIN alertPayload.CommonLabels
         THEN alertPayload.CommonLabels["alertname"]
         ELSE "Unknown Alert"

getAlertName(alertPayload) ==
    IF "alertname" \in DOMAIN alertPayload.CommonLabels
    THEN alertPayload.CommonLabels["alertname"]
    ELSE IF Len(alertPayload.Alerts) > 0
            /\ "alertname" \in DOMAIN alertPayload.Alerts[1].Labels
         THEN alertPayload.Alerts[1].Labels["alertname"]
         ELSE "Unknown Alert"

(***************************************************************************)
(* Transformer: GoogleChatMessage, Card, CardSection, Widget               *)
(*                                                                         *)
(* A Go pointer field is a sequence of length at most one: <<>> is the nil *)
(* pointer, <<v>> points to v.                                             *)
(***************************************************************************)

getStatusIcon(status) ==
    CASE status = "firing" -> "STAR"
      [] status = "resolved" -> "EMAIL"
      [] OTHER -> "DESCRIPTION"

\* strings.ToUpper on the status strings of the model.
ToUpper(s) ==
    CASE s = "firing" -> "FIRING"
      [] s = "resolved" -> "RESOLVED"
      [] s = "pending" -> "PENDING"
      [] OTHER -> s

\* The decimal digits of n, zero-padded to width w.
RECURSIVE Pad(_, _)
Pad(n, w) ==
    IF Len(ToString(n)) >= w THEN ToString(n)
    ELSE "0" \o Pad(n, w - 1)

\* time.Time.Format(time.RFC3339) of a UTC time.
FormatRFC3339(t) ==
    Pad(t.Y, 4) \o "-" \o Pad(t.M, 2) \o "-" \o Pad(t.D, 2) \o "T"
    \o Pad(t.h, 2) \o ":" \o Pad(t.m, 2) \o ":" \o Pad(t.s, 2) \o "Z"

\* The orders in which a range over a map with key set S may visit the keys.
IterationOrders(S) ==
    {o \in [1..Cardinality(S) -> S] : \A i, j \in DOMAIN o : o[i] = o[j] => i = j}

\* The bullet of formatMapAsList is U+2022.
Bullet == "*"

\* formatMapAsList losing the last key the range visits.
RECURSIVE formatMapAsList_SkipLast(_, _)
formatMapAsList_SkipLast(data, order) ==
    IF Len(order) <= 1 THEN ""
    ELSE Bullet \o " " \o Head(order) \o ": " \o data[Head(order)] \o "\n"
         \o formatMapAsList_SkipLast(data, Tail(order))

\* formatMapAsList with the map visited in the order `order`.
RECURSIVE formatMapAsList(_, _)
formatMapAsList(data, order) ==
    IF order = <<>> THEN ""
    ELSE Bullet \o " " \o Head(order) \o ": " \o data[Head(order)] \o "\n"
         \o formatMapAsList(data, Tail(order))

KeyValue(topLabel, content, multiline, icon) ==
    [TextParagraph |-> <<>>,
     KeyValue |-> <<[TopLabel |-> topLabel, Content |-> content,
                     ContentMultiline |-> multiline, BottomLabel |-> "",
                     Icon |-> icon]>>,
     Buttons |-> <<>>]

TextParagraph(text) ==
    [TextParagraph |-> <<[Text |-> text]>>, KeyValue |-> <<>>, Buttons |-> <<>>]

Buttons(text, url) ==
    [TextParagraph |-> <<>>, KeyValue |-> <<>>,
     Buttons |-> <<[TextButton |-> <<[Text |-> text,
                                      OnClick |-> <<[OpenLink |-> <<[URL |-> url]>>]>>]>>]>>]

createSummarySection(alertPayload, labelOrder, annotationOrder) ==
    [Header |-> "Summary",
     Widgets |->
        <<KeyValue("Status", alertPayload.Status, FALSE,
                   getStatusIcon(alertPayload.Status))>>
        \o (IF DOMAIN alertPayload.CommonLabels # {}
            THEN <<KeyValue("Common Labels",
                            formatMapAsList(alertPayload.CommonLabels, labelOrder),
                            TRUE, "")>>
            ELSE <<>>)
        \o (IF DOMAIN alertPayload.CommonAnnotations # {}
            THEN <<KeyValue("Common Annotations",
                            formatMapAsList(alertPayload.CommonAnnotations,
                                            annotationOrder),
                            TRUE, "")>>
            ELSE <<>>)]

\* createAlertSection with the header numbered from the loop index i, not i+1.
createAlertSection_ZeroBased(alertIndex, alert, labelOrder) ==
    [Header |-> "Alert #" \o ToString(alertIndex - 1),
     Widgets |->
        (IF "description" \in DOMAIN alert.Annotations
         THEN <<TextParagraph(alert.Annotations["description"])>>
         ELSE IF "summary" \in DOMAIN alert.Annotations
              THEN <<TextParagraph(alert.Annotations["summary"])>>
              ELSE <<>>)
        \o (IF DOMAIN alert.Labels # {}
            THEN <<KeyValue("Labels", formatMapAsList(alert.Labels, labelOrder),
                            TRUE, "")>>
            ELSE <<>>)
        \o <<KeyValue("Started", FormatRFC3339(alert.StartsAt), FALSE, "")>>
        \o (IF alert.GeneratorURL # ""
            THEN <<Buttons("View in Prometheus", alert.GeneratorURL)>>
            ELSE <<>>)]

\* createAlertSection with the "Started" widget left out for a zero start time.
createAlertSection_StartedIfSet(alertIndex, alert, labelOrder) ==
    [Header |-> "Alert #" \o ToString(alertIndex),
     Widgets |->
        (IF "description" \in DOMAIN alert.Annotations
         THEN <<TextParagraph(alert.Annotations["description"])>>
         ELSE IF "summary" \in DOMAIN alert.Annotations
              THEN <<TextParagraph(alert.Annotations["summary"])>>
              ELSE <<>>)
        \o (IF DOMAIN alert.Labels # {}
            THEN <<KeyValue("Labels", formatMapAsList(alert.Labels, labelOrder),
                            TRUE, "")>>
            ELSE <<>>)
        \o (IF alert.StartsAt # ZeroTime
            THEN <<KeyValue("Started", FormatRFC3339(alert.StartsAt), FALSE, "")>>
            ELSE <<>>)
        \o (IF alert.GeneratorURL # ""
            THEN <<Buttons("View in Prometheus", alert.GeneratorURL)>>
            ELSE <<>>)]

\* createAlertSection preferring the summary annotation to the description.
createAlertSection_SummaryFirst(alertIndex, alert, labelOrder) ==
    [Header |-> "Alert #" \o ToString(alertIndex),
     Widgets |->
        (IF "summary" \in DOMAIN alert.Annotations
         THEN <<TextParagraph(alert.Annotations["summary"])>>
         ELSE IF "description" \in DOMAIN alert.Annotations
              THEN <<TextParagraph(alert.Annotations["description"])>>
              ELSE <<>>)
        \o (IF DOMAIN alert.Labels # {}
            THEN <<KeyValue("Labels", formatMapAsList(alert.Labels, labelOrder),
                            TRUE, "")>>
            ELSE <<>>)
        \o <<KeyValue("Started", FormatRFC3339(alert.StartsAt), FALSE, "")>>
        \o (IF alert.GeneratorURL # ""
            THEN <<Buttons("View in Prometheus", alert.GeneratorURL)>>
            ELSE <<>>)]

\* createAlertSection appending the button row also for an empty generatorURL.
createAlertSection_ButtonAlways(alertIndex, alert, labelOrder) ==
    [Header |-> "Alert #" \o ToString(alertIndex),
     Widgets |->
        (IF "description" \in DOMAIN alert.Annotations
         THEN <<TextParagraph(alert.Annotations["description"])>>
         ELSE IF "summary" \in DOMAIN alert.Annotations
              THEN <<TextParagraph(alert.Annotations["summary"])>>
              ELSE <<>>)
        \o (IF DOMAIN alert.Labels # {}
            THEN <<KeyValue("Labels", formatMapAsList(alert.Labels, labelOrder),
                            TRUE, "")>>
            ELSE <<>>)
        \o <<KeyValue("Started", FormatRFC3339(alert.StartsAt), FALSE, "")>>
        \o (IF TRUE
            THEN <<Buttons("View in Prometheus", alert.GeneratorURL)>>
            ELSE <<>>)]

createAlertSection(alertIndex, alert, labelOrder) ==
    [Header |-> "Alert #" \o ToString(alertIndex),
     Widgets |->
        (IF "description" \in DOMAIN alert.Annotations
         THEN <<TextParagraph(alert.Annotations["description"])>>
         ELSE IF "summary" \in DOMAIN alert.Annotations
              THEN <<TextParagraph(alert.Annotations["summary"])>>
              ELSE <<>>)
        \o (IF DOMAIN alert.Labels # {}
            THEN <<KeyValue("Labels", formatMapAsList(alert.Labels, labelOrder),
                            TRUE, "")>>
            ELSE <<>>)
        \o <<KeyValue("Started", FormatRFC3339(alert.StartsAt), FALSE, "")>>
        \o (IF alert.GeneratorURL # ""
            THEN <<Buttons("View in Prometheus", alert.GeneratorURL)>>
            ELSE <<>>)]

createExternalURLSection(externalURL) ==
    [Header |-> "", Widgets |-> <<Buttons("View in AlertManager", externalURL)>>]

\* The map iteration orders one call of convertToGoogleChatFormat may see:
\* one per call of formatMapAsList.
MapOrders(alertPayload) ==
    [common : IterationOrders(DOMAIN alertPayload.CommonLabels),
     annotations : IterationOrders(DOMAIN alertPayload.CommonAnnotations),
     alerts : {o \in [DOMAIN alertPayload.Alerts ->
                        UNION {IterationOrders(DOMAIN alertPayload.Alerts[i].Labels)
                               : i \in DOMAIN alertPayload.Alerts}] :
                 \A i \in DOMAIN o :
                     o[i] \in IterationOrders(DOMAIN alertPayload.Alerts[i].Labels)}]

\* convertToGoogleChatFormat without strings.ToUpper on the status.
convertToGoogleChatFormat_StatusAsIs(alertPayload, ord) ==
    LET statusText == alertPayload.Status
        alertName == getAlertName(alertPayload)
        n == Len(alertPayload.Alerts)
        card ==
          [Header |-> <<[Title |-> statusText \o " Alert: " \o alertName,
                         Subtitle |-> ToString(n) \o " alert(s)"]>>,
           Sections |->
              <<createSummarySection(alertPayload, ord.common, ord.annotations)>>
              \o [i \in 1..n |->
                    createAlertSection(i, alertPayload.Alerts[i], ord.alerts[i])]
              \o (IF alertPayload.ExternalURL # ""
                  THEN <<createExternalURLSection(alertPayload.ExternalURL)>>
                  ELSE <<>>)]
    IN [Text |-> statusText \o " Alert: " \o alertName
                 \o " (" \o ToString(n) \o " alerts)",
        Cards |-> <<card>>]

convertToGoogleChatFormat(alertPayload, ord) ==
    LET statusText == ToUpper(alertPayload.Status)
        alertName == getAlertName(alertPayload)
        n == Len(alertPayload.Alerts)
        card ==
          [Header |-> <<[Title |-> statusText \o " Alert: " \o alertName,
                         Subtitle |-> ToString(n) \o " alert(s)"]>>,
           Sections |->
              <<createSummarySection(alertPayload, ord.common, ord.annotations)>>
              \o [i \in 1..n |->
                    createAlertSection(i, alertPayload.Alerts[i], ord.alerts[i])]
              \o (IF alertPayload.ExternalURL # ""
                  THEN <<createExternalURLSection(alertPayload.ExternalURL)>>
                  ELSE <<>>)]
    IN [Text |-> statusText \o " Alert: " \o alertName
                 \o " (" \o ToString(n) \o " alerts)",
        Cards |-> <<card>>]

\* The nil *GoogleChatMessage.
NoMessage == [Text |-> "", Cards |-> <<>>]

(***************************************************************************)
(* Requests: method, Content-Type header, body                             *)
(***************************************************************************)

Methods == {MethodPost, "GET"}

JSONType == "application/json"

\* Content-Type header values, each a sequence of pieces whose concatenation
\* is the header string: the missing header "", "text/plain",
\* "application/json", "application/json; charset=utf-8", "application/jsonp".
ContentTypes ==
    {<<>>, <<"text/plain">>, <<JSONType>>, <<JSONType, "; charset=utf-8">>,
     <<JSONType, "p">>}

\* strings.Contains(s, substr) for a substr that is one piece.
Contains(s, substr) == \E i \in DOMAIN s : s[i] = substr

\* The alerts and batches that clients of /webhook send.
WebhookAlerts ==
    {Alert(st, lb, <<>>, ZeroTime, "") :
        st \in {"", "firing"}, lb \in Maps({"alertname"}, {"HighCPU"})}

WebhookPayloads ==
    {AlertManagerPayload(st, al, cl, <<>>, "") :
        st \in {"", "firing", "resolved"},
        al \in SeqsUpTo(WebhookAlerts, MaxAlerts),
        cl \in Maps({"alertname"}, {"DiskFull"})}

\* json.Marshal of an AlertManagerPayload: a JSON object, a function from
\* the json tags of the struct to the field values; every field is written.
Marshal(p) ==
    [status |-> p.Status, alerts |-> p.Alerts, commonLabels |-> p.CommonLabels,
     commonAnnotations |-> p.CommonAnnotations, externalURL |-> p.ExternalURL]

\* The same JSON object with the members that hold a zero value left out.
OmitZero(doc) ==
    [f \in {g \in DOMAIN doc : doc[g] # Marshal(ZeroPayload)[g]} |-> doc[f]]

\* Request bodies: no bytes, bytes that are not JSON, JSON of the wrong
\* shape (alerts is not an array), and JSON objects.
EmptyBody == [kind |-> "empty", doc |-> <<>>]

Bodies ==
    {EmptyBody, [kind |-> "malformed", doc |-> <<>>],
     [kind |-> "mismatch", doc |-> <<>>]}
    \cup {[kind |-> "object", doc |-> Marshal(p)] : p \in WebhookPayloads}
    \cup {[kind |-> "object", doc |-> OmitZero(Marshal(p))] : p \in WebhookPayloads}

\* io.ReadAll(r.Body): the bytes, or a read error.
ReadAll ==
    {[err |-> Nil, body |-> b] : b \in Bodies}
    \cup {[err |-> "unexpected EOF", body |-> EmptyBody]}

\* A member of a JSON object, or the zero value the decoder leaves in place.
Field(doc, tag, zero) == IF tag \in DOMAIN doc THEN doc[tag] ELSE zero

\* json.Unmarshal(body, &alertPayload) on a zero alertPayload.
Unmarshal(b) ==
    IF b.kind = "object"
    THEN [err |-> Nil,
          payload |-> AlertManagerPayload(Field(b.doc, "status", ""),
                                          Field(b.doc, "alerts", <<>>),
                                          Field(b.doc, "commonLabels", <<>>),
                                          Field(b.doc, "commonAnnotations", <<>>),
                                          Field(b.doc, "externalURL", ""))]
    ELSE [err |-> "invalid JSON", payload |-> ZeroPayload]

(***************************************************************************)
(* Providers and the webhook they post to                                  *)
(***************************************************************************)

\* The Provider a handler is given: main builds a GoogleChatProvider, the
\* tests a MockProvider.
Providers ==
    {[kind |-> "GoogleChatProvider",
      WebhookURL |-> "https://chat.googleapis.com/v1/spaces/AAAA/messages"],
     [kind |-> "MockProvider", shouldFail |-> FALSE],
     [kind |-> "MockProvider", shouldFail |-> TRUE]}

\* sharedHTTPClient.Do(req): a transport error, or a response with a status
\* code and a body that can or cannot be read.
Responses ==
    {[err |-> "timeout", StatusCode |-> 0, body |-> "", readable |-> FALSE]}
    \cup [err : {Nil}, StatusCode : {200, 299, 300, 500},
          body : {"quota exceeded"}, readable : BOOLEAN]

\* Request slots: the goroutines the server runs handlers on.
RequestIds == {1, 2}

NoRequest == [Method |-> "", ContentType |-> <<>>, reqID |-> 0]

\* The err variables of one handler call, by the call that sets them.
NoError == [ReadAll |-> Nil, Unmarshal |-> Nil, validateAlertPayload |-> Nil,
            Send |-> Nil]

\* The call of a pure function under examination.
NoCall == [fn |-> "none", arg |-> ZeroPayload, ret |-> Nil]

VARIABLES
    pc,                       \* per request: the step the handler has reached
    req,                      \* per request: method, Content-Type, reqID
    body,                     \* per request: the bytes read from r.Body
    alertPayload,             \* per request: the decoded batch
    chatMessage,              \* per request: the converted message
    err,                      \* per request: the err variables of the handler
    sendCalls,                \* per request: calls of provider.Send
    status,                   \* per request: HTTP status written (0: none)
    respBody,                 \* per request: response body written
    provider,                 \* the Provider handed to the handler
    mockMessages,             \* MockProvider.messages
    alertsReceived,           \* counter vector, label status
    alertsSent,               \* counter vector, label status
    providerErrors,           \* counter vector, label provider
    providerRequestDuration,  \* histogram vector: observations per label pair
    alertProcessingDuration,  \* histogram vector: observations per label
    served,                   \* requests accepted so far
    workers,                  \* handlers the server runs at the same time
    posts,                    \* HTTP POSTs issued through sharedHTTPClient.Do
    call                      \* pure function call: function, argument, result

reqVars ==
    <<pc, req, body, alertPayload, chatMessage, err, sendCalls, status,
      respBody>>

metricVars ==
    <<alertsReceived, alertsSent, providerErrors, providerRequestDuration,
      alertProcessingDuration>>

vars == <<reqVars, provider, mockMessages, metricVars, served,
          workers, posts, call>>

\* prometheus CounterVec / HistogramVec: a function from the label values
\* seen so far to a count; WithLabelValues creates the child on first use.
Value(vec, label) == IF label \in DOMAIN vec THEN vec[label] ELSE 0

Inc(vec, label) ==
    [l \in DOMAIN vec \cup {label} |->
        IF l = label THEN Value(vec, l) + 1 ELSE vec[l]]

RECURSIVE SumOver(_, _)
SumOver(vec, labels) ==
    IF labels = {} THEN 0
    ELSE LET l == CHOOSE x \in labels : TRUE
         IN vec[l] + SumOver(vec, labels \ {l})

\* The sum of a vector over all its labels.
Total(vec) == SumOver(vec, DOMAIN vec)

(***************************************************************************)
(* Initial state: no request in flight, every metric vector empty          *)
(***************************************************************************)

IdleServer ==
    /\ pc = [r \in RequestIds |-> "Idle"]
    /\ req = [r \in RequestIds |-> NoRequest]
    /\ body = [r \in RequestIds |-> EmptyBody]
    /\ alertPayload = [r \in RequestIds |-> ZeroPayload]
    /\ chatMessage = [r \in RequestIds |-> NoMessage]
    /\ err = [r \in RequestIds |-> NoError]
    /\ sendCalls = [r \in RequestIds |-> 0]
    /\ status = [r \in RequestIds |-> 0]
    /\ respBody = [r \in RequestIds |-> ""]
    /\ mockMessages = <<>>
    /\ alertsReceived = <<>>
    /\ alertsSent = <<>>
    /\ providerErrors = <<>>
    /\ providerRequestDuration = <<>>
    /\ alertProcessingDuration = <<>>
    /\ served = 0
    /\ posts = 0

Init ==
    /\ IdleServer
    /\ provider \in Providers
    /\ workers = 1
    /\ call = NoCall

(***************************************************************************)
(* handleWebhookWithProvider, step by step                                 *)
(***************************************************************************)

\* http.Error(w, text, code), or w.WriteHeader(code) and fmt.Fprintf(w, text):
\* the handler answers and has nothing left to do.
WriteResponse(r, code, text) ==
    /\ status' = [status EXCEPT ![r] = code]
    /\ respBody' = [respBody EXCEPT ![r] = text]
    /\ pc' = [pc EXCEPT ![r] = "Responded"]

\* The server accepts a request and starts a handler for it on a free slot.
Receive(r) ==
    /\ pc[r] = "Idle"
    /\ \A q \in RequestIds : pc[q] = "Idle" => r <= q
    /\ Cardinality({q \in RequestIds : pc[q] # "Idle"}) < workers
    /\ served < MaxRequests
    /\ served' = served + 1
    /\ \E m \in Methods, ct \in ContentTypes :
          req' = [req EXCEPT ![r] =
                    [Method |-> m, ContentType |-> ct, reqID |-> served + 1]]
    /\ pc' = [pc EXCEPT ![r] = "Received"]
    /\ UNCHANGED <<body, alertPayload, chatMessage, err, sendCalls, status,
                   respBody, provider, mockMessages, metricVars,
                   workers, posts, call>>

\* CheckMethod without the return after http.Error: the handler goes on.
CheckMethod_NoReturn(r) ==
    /\ pc[r] = "Received"
    /\ IF req[r].Method # MethodPost
       THEN /\ status' = [status EXCEPT ![r] = StatusMethodNotAllowed]
            /\ respBody' = [respBody EXCEPT ![r] = "Method not allowed"]
            /\ pc' = [pc EXCEPT ![r] = "MethodChecked"]
       ELSE /\ pc' = [pc EXCEPT ![r] = "MethodChecked"]
            /\ UNCHANGED <<status, respBody>>
    /\ UNCHANGED <<req, body, alertPayload, chatMessage, err, sendCalls,
                   provider, mockMessages, metricVars, served,
                   workers, posts, call>>

CheckMethod(r) ==
    /\ pc[r] = "Received"
    /\ IF req[r].Method # MethodPost
       THEN WriteResponse(r, StatusMethodNotAllowed, "Method not allowed")
       ELSE /\ pc' = [pc EXCEPT ![r] = "MethodChecked"]
            /\ UNCHANGED <<status, respBody>>
    /\ UNCHANGED <<req, body, alertPayload, chatMessage, err, sendCalls,
                   provider, mockMessages, metricVars, served,
                   workers, posts, call>>

CheckContentType(r) ==
    /\ pc[r] = "MethodChecked"
    /\ IF ~Contains(req[r].ContentType, JSONType)
       THEN WriteResponse(r, StatusBadRequest,
                          "Content-Type must be application/json")
       ELSE /\ pc' = [pc EXCEPT ![r] = "ContentTypeChecked"]
            /\ UNCHANGED <<status, respBody>>
    /\ UNCHANGED <<req, body, alertPayload, chatMessage, err, sendCalls,
                   provider, mockMessages, metricVars, served,
                   workers, posts, call>>

\* io.ReadAll and the empty body check, the read being one of reads.
ReadBodyOf(r, reads) ==
    /\ pc[r] = "ContentTypeChecked"
    /\ \E read \in reads :
          IF read.err # Nil
          THEN /\ WriteResponse(r, StatusInternalServerError,
                                "Error reading request body")
               /\ err' = [err EXCEPT ![r].ReadAll = read.err]
               /\ UNCHANGED body
          ELSE IF read.body.kind = "empty"
          THEN /\ WriteResponse(r, StatusBadRequest, "Empty request body")
               /\ UNCHANGED <<body, err>>
          ELSE /\ body' = [body EXCEPT ![r] = read.body]
               /\ pc' = [pc EXCEPT ![r] = "BodyRead"]
               /\ UNCHANGED <<status, respBody, err>>
    /\ UNCHANGED <<req, alertPayload, chatMessage, sendCalls,
                   provider, mockMessages, metricVars, served,
                   workers, posts, call>>

ReadBody(r) == ReadBodyOf(r, ReadAll)

\* Parse decoding into a package-level alertPayload that all handlers share.
Parse_SharedPayload(r) ==
    /\ pc[r] = "BodyRead"
    /\ LET decoded == Unmarshal(body[r])
       IN IF decoded.err # Nil
          THEN /\ WriteResponse(r, StatusBadRequest,
                                "Error parsing AlertManager payload")
               /\ err' = [err EXCEPT ![r].Unmarshal = decoded.err]
               /\ UNCHANGED alertPayload
          ELSE /\ alertPayload' = [q \in RequestIds |-> decoded.payload]
               /\ pc' = [pc EXCEPT ![r] = "Parsed"]
               /\ UNCHANGED <<status, respBody, err>>
    /\ UNCHANGED <<req, body, chatMessage, sendCalls,
                   provider, mockMessages, metricVars, served,
                   workers, posts, call>>

Parse(r) ==
    /\ pc[r] = "BodyRead"
    /\ LET decoded == Unmarshal(body[r])
       IN IF decoded.err # Nil
          THEN /\ WriteResponse(r, StatusBadRequest,
                                "Error parsing AlertManager payload")
               /\ err' = [err EXCEPT ![r].Unmarshal = decoded.err]
               /\ UNCHANGED alertPayload
          ELSE /\ alertPayload' = [alertPayload EXCEPT ![r] = decoded.payload]
               /\ pc' = [pc EXCEPT ![r] = "Parsed"]
               /\ UNCHANGED <<status, respBody, err>>
    /\ UNCHANGED <<req, body, chatMessage, sendCalls,
                   provider, mockMessages, metricVars, served,
                   workers, posts, call>>

\* Validate with the result of validateAlertPayload ignored.
Validate_ErrorIgnored(r) ==
    /\ pc[r] = "Parsed"
    /\ pc' = [pc EXCEPT ![r] = "Validated"]
    /\ UNCHANGED <<req, body, alertPayload, chatMessage, err, sendCalls, status,
                   respBody, provider, mockMessages, metricVars, served,
                   workers, posts, call>>

Validate(r) ==
    /\ pc[r] = "Parsed"
    /\ LET e == validateAlertPayload(alertPayload[r])
       IN IF e # Nil
          THEN /\ WriteResponse(r, StatusBadRequest, "Invalid alert payload")
               /\ err' = [err EXCEPT ![r].validateAlertPayload = e]
          ELSE /\ pc' = [pc EXCEPT ![r] = "Validated"]
               /\ UNCHANGED <<status, respBody, err>>
    /\ UNCHANGED <<req, body, alertPayload, chatMessage, sendCalls,
                   provider, mockMessages, metricVars, served,
                   workers, posts, call>>

\* Transform without the increment of alertsReceived.
Transform_Uncounted(r) ==
    /\ pc[r] = "Validated"
    /\ \E ord \in MapOrders(alertPayload[r]) :
          chatMessage' = [chatMessage EXCEPT ![r] =
                            convertToGoogleChatFormat(alertPayload[r], ord)]
    /\ pc' = [pc EXCEPT ![r] = "Transformed"]
    /\ UNCHANGED <<req, body, alertPayload, err, sendCalls, status, respBody,
                   provider, mockMessages, metricVars, served,
                   workers, posts, call>>

\* alertsReceived.WithLabelValues(alertPayload.Status).Inc() and
\* convertToGoogleChatFormat(&alertPayload).
Transform(r) ==
    /\ pc[r] = "Validated"
    /\ alertsReceived' = Inc(alertsReceived, alertPayload[r].Status)
    /\ \E ord \in MapOrders(alertPayload[r]) :
          chatMessage' = [chatMessage EXCEPT ![r] =
                            convertToGoogleChatFormat(alertPayload[r], ord)]
    /\ pc' = [pc EXCEPT ![r] = "Transformed"]
    /\ UNCHANGED <<req, body, alertPayload, err, sendCalls, status, respBody,
                   provider, mockMessages, alertsSent, providerErrors,
                   providerRequestDuration, alertProcessingDuration, served,
                   workers, posts, call>>

\* AfterSend with a second call of provider.Send after a failed one.
AfterSend_Retry(r, e) ==
    /\ sendCalls' = [sendCalls EXCEPT ![r] = IF e # Nil THEN @ + 2 ELSE @ + 1]
    /\ err' = [err EXCEPT ![r].Send = e]
    /\ IF e # Nil
       THEN WriteResponse(r, StatusInternalServerError,
                          "Error sending to Google Chat")
       ELSE /\ pc' = [pc EXCEPT ![r] = "Delivered"]
            /\ UNCHANGED <<status, respBody>>
    /\ UNCHANGED <<req, body, alertPayload, chatMessage, provider,
                   alertsReceived, alertProcessingDuration, served, workers,
                   call>>

\* What the handler does with the error provider.Send returned.
AfterSend(r, e) ==
    /\ sendCalls' = [sendCalls EXCEPT ![r] = @ + 1]
    /\ err' = [err EXCEPT ![r].Send = e]
    /\ IF e # Nil
       THEN WriteResponse(r, StatusInternalServerError,
                          "Error sending to Google Chat")
       ELSE /\ pc' = [pc EXCEPT ![r] = "Delivered"]
            /\ UNCHANGED <<status, respBody>>
    /\ UNCHANGED <<req, body, alertPayload, chatMessage, provider,
                   alertsReceived, alertProcessingDuration, served, workers,
                   call>>

\* GoogleChatProvider.Send taking a 3xx response for a success.
GoogleChatProviderSendError_RedirectOK(resp) ==
    IF resp.err # Nil THEN "error sending request: " \o resp.err
    ELSE IF resp.StatusCode >= 400
         THEN "received non-success status code " \o ToString(resp.StatusCode)
              \o ": " \o (IF resp.readable THEN resp.body ELSE "")
         ELSE Nil

\* The error GoogleChatProvider.Send returns for the outcome resp of
\* sharedHTTPClient.Do.
GoogleChatProviderSendError(resp) ==
    IF resp.err # Nil THEN "error sending request: " \o resp.err
    ELSE IF resp.StatusCode >= 300
         THEN "received non-success status code " \o ToString(resp.StatusCode)
              \o ": " \o (IF resp.readable THEN resp.body ELSE "")
         ELSE Nil

\* A webhook URL url.Parse rejects (an invalid percent escape).
BadURL == "https://chat.googleapis.com/v1/spaces/%zz/messages"

\* json.Marshal(message): a GoogleChatMessage is made of strings, booleans,
\* slices and pointers to structs, all of which encode.
MarshalError(message) == Nil

\* http.NewRequest(http.MethodPost, url, body): the error of url.Parse.
NewRequestError(url) ==
    IF url = BadURL THEN "parse: invalid URL escape %zz" ELSE Nil

\* GoogleChatProvider.Send posting a second time after a failed attempt.
GoogleChatProviderSendCall_Retry(g, message, resp) ==
    IF NewRequestError(g.WebhookURL) # Nil
    THEN [err |-> "error creating request: " \o NewRequestError(g.WebhookURL),
          posts |-> 0]
    ELSE [err |-> GoogleChatProviderSendError(resp),
          posts |-> IF GoogleChatProviderSendError(resp) # Nil THEN 2 ELSE 1]

\* One call of GoogleChatProvider.Send: the error it returns and the calls of
\* sharedHTTPClient.Do it makes, resp being the outcome of Do.
GoogleChatProviderSendCall(g, message, resp) ==
    IF MarshalError(message) # Nil
    THEN [err |-> "error marshaling Google Chat message: " \o MarshalError(message),
          posts |-> 0]
    ELSE IF NewRequestError(g.WebhookURL) # Nil
    THEN [err |-> "error creating request: " \o NewRequestError(g.WebhookURL),
          posts |-> 0]
    ELSE [err |-> GoogleChatProviderSendError(resp), posts |-> 1]

\* The metrics one call of GoogleChatProvider.Send touches, e being the
\* error it returns.
\* GoogleChatProvider.Send counting the message as sent on every path.
GoogleChatProviderSendMetrics_SentAlways(e, message) ==
    /\ providerRequestDuration' =
          Inc(providerRequestDuration, <<"google_chat", "start">>)
    /\ IF e # Nil
       THEN /\ providerErrors' = Inc(providerErrors, "google_chat")
            /\ alertsSent' = Inc(alertsSent, message.Text)
       ELSE /\ alertsSent' = Inc(alertsSent, message.Text)
            /\ UNCHANGED providerErrors

GoogleChatProviderSendMetrics(e, message) ==
    /\ providerRequestDuration' =
          Inc(providerRequestDuration, <<"google_chat", "start">>)
    /\ IF e # Nil
       THEN /\ providerErrors' = Inc(providerErrors, "google_chat")
            /\ UNCHANGED alertsSent
       ELSE /\ alertsSent' = Inc(alertsSent, message.Text)
            /\ UNCHANGED providerErrors

\* GoogleChatProvider.Send counting an error only when the transport fails.
GoogleChatProviderSend_RejectionUncounted(r) ==
    /\ pc[r] = "Transformed"
    /\ provider.kind = "GoogleChatProvider"
    /\ \E resp \in Responses :
          LET e == GoogleChatProviderSendError(resp)
          IN /\ providerRequestDuration' =
                    Inc(providerRequestDuration, <<"google_chat", "start">>)
             /\ IF resp.err # Nil
                THEN /\ providerErrors' = Inc(providerErrors, "google_chat")
                     /\ UNCHANGED alertsSent
                ELSE IF e # Nil
                THEN UNCHANGED <<providerErrors, alertsSent>>
                ELSE /\ alertsSent' = Inc(alertsSent, chatMessage[r].Text)
                     /\ UNCHANGED providerErrors
             /\ posts' = posts + 1
             /\ UNCHANGED mockMessages
             /\ AfterSend(r, e)

\* GoogleChatProvider.Send(message, reqID) called by the handler.
GoogleChatProviderSend(r) ==
    /\ pc[r] = "Transformed"
    /\ provider.kind = "GoogleChatProvider"
    /\ \E resp \in Responses :
          LET out == GoogleChatProviderSendCall(provider, chatMessage[r], resp)
          IN /\ GoogleChatProviderSendMetrics(out.err, chatMessage[r])
             /\ posts' = posts + out.posts
             /\ UNCHANGED mockMessages
             /\ AfterSend(r, out.err)

\* MockProvider.Send(message, reqID) called by the handler.
MockProviderSend(r) ==
    /\ pc[r] = "Transformed"
    /\ provider.kind = "MockProvider"
    /\ IF provider.shouldFail
       THEN /\ UNCHANGED mockMessages
            /\ AfterSend(r, "mock provider configured to fail")
       ELSE /\ mockMessages' = Append(mockMessages,
                                      [message |-> chatMessage[r],
                                       reqID |-> req[r].reqID])
            /\ AfterSend(r, Nil)
    /\ UNCHANGED <<alertsSent, providerErrors, providerRequestDuration, posts>>

Respond(r) ==
    /\ pc[r] = "Delivered"
    /\ WriteResponse(r, StatusOK, "Alert processed successfully")
    /\ UNCHANGED <<req, body, alertPayload, chatMessage, err, sendCalls,
                   provider, mockMessages, metricVars, served,
                   workers, posts, call>>

\* The handler returns; its locals are gone and the slot is free again.
Return(r) ==
    /\ pc[r] = "Responded"
    /\ pc' = [pc EXCEPT ![r] = "Idle"]
    /\ req' = [req EXCEPT ![r] = NoRequest]
    /\ body' = [body EXCEPT ![r] = EmptyBody]
    /\ alertPayload' = [alertPayload EXCEPT ![r] = ZeroPayload]
    /\ chatMessage' = [chatMessage EXCEPT ![r] = NoMessage]
    /\ err' = [err EXCEPT ![r] = NoError]
    /\ sendCalls' = [sendCalls EXCEPT ![r] = 0]
    /\ status' = [status EXCEPT ![r] = 0]
    /\ respBody' = [respBody EXCEPT ![r] = ""]
    /\ UNCHANGED <<provider, mockMessages, metricVars, served,
                   workers, posts, call>>

Next ==
    \E r \in RequestIds :
        \/ Receive(r)
        \/ CheckMethod(r)
        \/ CheckContentType(r)
        \/ ReadBody(r)
        \/ Parse(r)
        \/ Validate(r)
        \/ Transform(r)
        \/ GoogleChatProviderSend(r)
        \/ MockProviderSend(r)
        \/ Respond(r)
        \/ Return(r)

Spec == Init /\ [][Next]_vars

(***************************************************************************)
(* Two handlers at a time                                                  *)
(***************************************************************************)

\* The reads of the concurrent server: a failed read, an empty body, bytes
\* that are not JSON, a batch without alerts and two different valid batches.
ConcurrentReads ==
    {[err |-> "unexpected EOF", body |-> EmptyBody],
     [err |-> Nil, body |-> EmptyBody],
     [err |-> Nil, body |-> [kind |-> "malformed", doc |-> <<>>]]}
    \cup {[err |-> Nil, body |-> [kind |-> "object", doc |-> Marshal(p)]] :
            p \in {AlertManagerPayload("firing", <<>>, <<>>, <<>>, ""),
                   AlertManagerPayload("firing",
                       <<Alert("firing", [alertname |-> "HighCPU"], <<>>,
                               ZeroTime, "")>>, <<>>, <<>>, ""),
                   AlertManagerPayload("resolved",
                       <<Alert("resolved", [alertname |-> "HighCPU"], <<>>,
                               ZeroTime, "")>>,
                       [alertname |-> "DiskFull"], <<>>, "")}}

\* net/http runs every handler on a goroutine of its own.
InitConcurrent ==
    /\ IdleServer
    /\ provider \in Providers
    /\ workers = 2
    /\ call = NoCall

NextConcurrent ==
    \E r \in RequestIds :
        \/ Receive(r)
        \/ CheckMethod(r)
        \/ CheckContentType(r)
        \/ ReadBodyOf(r, ConcurrentReads)
        \/ Parse(r)
        \/ Validate(r)
        \/ Transform(r)
        \/ GoogleChatProviderSend(r)
        \/ MockProviderSend(r)
        \/ Respond(r)
        \/ Return(r)

SpecConcurrent == InitConcurrent /\ [][NextConcurrent]_vars

(***************************************************************************)
(* The handler goroutine under the scheduler                               *)
(***************************************************************************)

\* One step of the handler of request r, from its start to its answer.
HandlerStep(r) ==
    \/ CheckMethod(r)
    \/ CheckContentType(r)
    \/ ReadBody(r)
    \/ Parse(r)
    \/ Validate(r)
    \/ Transform(r)
    \/ GoogleChatProviderSend(r)
    \/ MockProviderSend(r)
    \/ Respond(r)

\* The server before the last request it accepts, the earlier ones having
\* been turned away by the method check (nothing counted, nothing sent).
InitLastRequest ==
    /\ pc = [r \in RequestIds |-> "Idle"]
    /\ req = [r \in RequestIds |-> NoRequest]
    /\ body = [r \in RequestIds |-> EmptyBody]
    /\ alertPayload = [r \in RequestIds |-> ZeroPayload]
    /\ chatMessage = [r \in RequestIds |-> NoMessage]
    /\ err = [r \in RequestIds |-> NoError]
    /\ sendCalls = [r \in RequestIds |-> 0]
    /\ status = [r \in RequestIds |-> 0]
    /\ respBody = [r \in RequestIds |-> ""]
    /\ mockMessages = <<>>
    /\ alertsReceived = <<>>
    /\ alertsSent = <<>>
    /\ providerErrors = <<>>
    /\ providerRequestDuration = <<>>
    /\ alertProcessingDuration = <<>>
    /\ served = MaxRequests - 1
    /\ posts = 0
    /\ provider \in Providers
    /\ workers = 1
    /\ call = NoCall

\* A started handler goroutine keeps being scheduled, and each of its steps
\* returns: the body read is bounded by the server's ReadTimeout, Send by the
\* Timeout of sharedHTTPClient. Nothing obliges a client to send a request.
SpecLive ==
    /\ InitLastRequest
    /\ [][Next]_vars
    /\ \A r \in RequestIds : WF_vars(HandlerStep(r))

(***************************************************************************)
(* The pure functions called on their own, on batches of any shape         *)
(***************************************************************************)

\* The batches the pure functions are called on.
FunctionAlerts ==
    {Alert(st, lb, <<>>, ZeroTime, "") :
        st \in {"", "firing"},
        lb \in Maps({"alertname", "severity"}, {"HighCPU", "DiskFull"})}

FunctionPayloads ==
    {AlertManagerPayload(st, al, cl, <<>>, "") :
        st \in {"", "firing"},
        al \in SeqsUpTo(FunctionAlerts, MaxAlerts),
        cl \in Maps({"alertname", "team"}, {"DiskFull", "platform"})}

InitFunctions ==
    /\ IdleServer
    /\ provider = [kind |-> "MockProvider", shouldFail |-> FALSE]
    /\ workers = 0
    /\ call \in {[fn |-> "none", arg |-> p, ret |-> Nil] : p \in FunctionPayloads}

CallValidateAlertPayload ==
    /\ call.fn = "none"
    /\ call' = [call EXCEPT !.fn = "validateAlertPayload",
                            !.ret = validateAlertPayload(call.arg)]
    /\ UNCHANGED <<reqVars, provider, mockMessages, metricVars, served,
                   workers, posts>>

CallGetAlertName ==
    /\ call.fn = "none"
    /\ call' = [call EXCEPT !.fn = "getAlertName",
                            !.ret = getAlertName(call.arg)]
    /\ UNCHANGED <<reqVars, provider, mockMessages, metricVars, served,
                   workers, posts>>

NextFunctions ==
    \/ CallValidateAlertPayload
    \/ CallGetAlertName

SpecFunctions == InitFunctions /\ [][NextFunctions]_vars

(***************************************************************************)
(* Properties of the validator (SpecFunctions)                             *)
(***************************************************************************)

\* An alert that breaks one of the two per-alert rules.
Defective(alert) == alert.Status = "" \/ DOMAIN alert.Labels = {}

\* The position of the first defective alert of a list that has one.
FirstDefect(alerts) ==
    CHOOSE i \in DOMAIN alerts :
        Defective(alerts[i]) /\ \A j \in 1..(i - 1) : ~Defective(alerts[j])

\* The call under examination is one of validateAlertPayload.
ValidateCalled == call.fn = "validateAlertPayload"

\* C6: validateAlertPayload reports only the first failure, in the order
\* batch status, empty alerts list, then the alerts by index: an empty batch
\* status gives "status is required" whatever the alerts are; otherwise an
\* empty list gives "at least one alert is required"; otherwise the error
\* names the Go index of the first defective alert and is the missing-status
\* error when that alert has no status (even if it has no labels either) and
\* the missing-labels error otherwise.
C6_FirstFailureWins ==
    ValidateCalled =>
        LET p == call.arg
        IN /\ p.Status = "" => call.ret = "status is required"
           /\ p.Status # "" /\ p.Alerts = <<>> =>
                 call.ret = "at least one alert is required"
           /\ p.Status # "" /\ (\E i \in DOMAIN p.Alerts : Defective(p.Alerts[i])) =>
                 LET i == FirstDefect(p.Alerts)
                 IN call.ret =
                       IF p.Alerts[i].Status = ""
                       THEN "alert " \o ToString(i - 1) \o " status is required"
                       ELSE "alert " \o ToString(i - 1)
                            \o " must have at least one label"

\* Witness of C6: the first alert is well formed, the second has neither a
\* status nor labels, and the error is the missing-status error of index 1.
C6_Witness ==
    /\ ValidateCalled
    /\ Len(call.arg.Alerts) = 2
    /\ call.arg.Status # ""
    /\ ~Defective(call.arg.Alerts[1])
    /\ call.arg.Alerts[2].Status = ""
    /\ DOMAIN call.arg.Alerts[2].Labels = {}
    /\ call.ret = "alert 1 status is required"

\* C7 as stated: every batch with an empty alerts list gets the error
\* "at least one alert is required".
C7_EmptyAlertsAlways ==
    ValidateCalled /\ call.arg.Alerts = <<>> =>
        call.ret = "at least one alert is required"

\* C7, amended: every batch with a non-empty status and an empty alerts list
\* gets the error "at least one alert is required".
C7_EmptyAlerts ==
    ValidateCalled /\ call.arg.Status # "" /\ call.arg.Alerts = <<>> =>
        call.ret = "at least one alert is required"

\* Witness of C7: a batch with a status and no alerts has been validated.
C7_Witness ==
    /\ ValidateCalled
    /\ call.arg.Status = "firing"
    /\ call.arg.Alerts = <<>>
    /\ call.ret = "at least one alert is required"

\* C8 as stated: a batch with a non-empty status in which every alert has a
\* non-empty status and non-empty labels passes validation.
C8_WellFormedAlertsPass ==
    /\ ValidateCalled
    /\ call.arg.Status # ""
    /\ \A i \in DOMAIN call.arg.Alerts : ~Defective(call.arg.Alerts[i])
    => call.ret = Nil

\* C8, amended: a batch with a non-empty status and at least one alert, in
\* which every alert has a non-empty status and non-empty labels, passes
\* validation.
C8_WellFormedBatchPasses ==
    /\ ValidateCalled
    /\ call.arg.Status # ""
    /\ call.arg.Alerts # <<>>
    /\ \A i \in DOMAIN call.arg.Alerts : ~Defective(call.arg.Alerts[i])
    => call.ret = Nil

\* Witness of C8: a batch of one well formed alert has passed.
C8_Witness ==
    /\ ValidateCalled
    /\ call.arg.Status # ""
    /\ Len(call.arg.Alerts) = 1
    /\ ~Defective(call.arg.Alerts[1])
    /\ call.ret = Nil

(***************************************************************************)
(* Properties of getAlertName (SpecFunctions)                              *)
(***************************************************************************)

\* C10: the alert name is commonLabels["alertname"] whenever that key is
\* present, otherwise the first alert's labels["alertname"] when present,
\* otherwise "Unknown Alert"; alerts after the first are never consulted and
\* an empty alerts list yields the fallback.
C10_AlertNamePrecedence ==
    call.fn = "getAlertName" =>
        LET p == call.arg
            inCommon == "alertname" \in DOMAIN p.CommonLabels
            inFirst == p.Alerts # <<>> /\ "alertname" \in DOMAIN p.Alerts[1].Labels
        IN /\ inCommon => call.ret = p.CommonLabels["alertname"]
           /\ ~inCommon /\ inFirst => call.ret = p.Alerts[1].Labels["alertname"]
           /\ ~inCommon /\ ~inFirst => call.ret = "Unknown Alert"

\* Witness of C10: the common labels and the first alert both carry an
\* alertname, the two differ, and the common one is the result.
C10_Witness ==
    /\ call.fn = "getAlertName"
    /\ "alertname" \in DOMAIN call.arg.CommonLabels
    /\ call.arg.Alerts # <<>>
    /\ "alertname" \in DOMAIN call.arg.Alerts[1].Labels
    /\ call.arg.Alerts[1].Labels["alertname"] # call.arg.CommonLabels["alertname"]
    /\ call.ret = call.arg.CommonLabels["alertname"]

(***************************************************************************)
(* Properties of the request handler (Spec)                                *)
(***************************************************************************)

\* Parameters a media type may carry in a Content-Type header.
MediaTypeParameters == {"; charset=utf-8"}

\* The header names the media type application/json.
IsJSONContentType(ct) ==
    /\ Len(ct) >= 1
    /\ ct[1] = JSONType
    /\ \A i \in 2..Len(ct) : ct[i] \in MediaTypeParameters

\* The status C1 gives an answered request: that of the first failing step
\* in the order method, Content-Type, body read, empty body, JSON parse,
\* validation, delivery.
C1_Status(r) ==
    IF req[r].Method # MethodPost THEN StatusMethodNotAllowed
    ELSE IF ~IsJSONContentType(req[r].ContentType) THEN StatusBadRequest
    ELSE IF err[r].ReadAll # Nil THEN StatusInternalServerError
    ELSE IF body[r].kind = "empty" THEN StatusBadRequest
    ELSE IF Unmarshal(body[r]).err # Nil THEN StatusBadRequest
    ELSE IF validateAlertPayload(Unmarshal(body[r]).payload) # Nil
         THEN StatusBadRequest
    ELSE IF err[r].Send # Nil THEN StatusInternalServerError
    ELSE StatusOK

\* C1: the status of every answered request is that of the first failing
\* step: 405 for a method other than POST, 400 for a Content-Type that is
\* not application/json, 500 for a failed body read, 400 for an empty body,
\* for a body that does not parse and for a batch that fails validation, 500
\* for a failed Send, and 200 with the body "Alert processed successfully"
\* only when every step succeeds.
C1_StatusByFirstFailure ==
    \A r \in RequestIds :
        pc[r] = "Responded" =>
            /\ status[r] = C1_Status(r)
            /\ status[r] = StatusOK <=> respBody[r] = "Alert processed successfully"

\* C2: provider.Send is called at most once per request: not at all for a
\* request answered with 405 or 400 or with the 500 of a failed body read,
\* and exactly once for a request answered with 200 or with the 500 of a
\* failed delivery.
C2_SendCalls ==
    \A r \in RequestIds :
        /\ sendCalls[r] <= 1
        /\ pc[r] = "Responded" =>
              /\ status[r] \in {StatusMethodNotAllowed, StatusBadRequest} =>
                    sendCalls[r] = 0
              /\ status[r] = StatusInternalServerError /\ err[r].ReadAll # Nil =>
                    sendCalls[r] = 0
              /\ status[r] = StatusOK => sendCalls[r] = 1
              /\ status[r] = StatusInternalServerError /\ err[r].Send # Nil =>
                    sendCalls[r] = 1
              /\ status[r] \in {StatusMethodNotAllowed, StatusBadRequest,
                                StatusInternalServerError, StatusOK}

\* Witness of C2: a request answered with 500 after its one call of Send
\* failed.
C2_Witness ==
    \E r \in RequestIds :
        /\ pc[r] = "Responded"
        /\ status[r] = StatusInternalServerError
        /\ err[r].Send # Nil
        /\ sendCalls[r] = 1

\* The step in which the handler of r gets an error from provider.Send.
DeliveryFails(r) == pc[r] = "Transformed" /\ pc'[r] = "Responded"

ReachedParsed(r) ==
    /\ err[r].ReadAll = Nil
    /\ body[r].kind = "object"
    /\ Unmarshal(body[r]).err = Nil

\* C4 as stated, for the first request a server answers: the "batch
\* received" counter stands at 1, under the label of the batch status, when
\* the body was decoded into a batch, whether or not the batch passed
\* validation, and at 0 when it was not.
C4_CountedWhenParsed ==
    \A r \in RequestIds :
        pc[r] = "Responded" /\ served = 1 =>
            IF ReachedParsed(r)
            THEN /\ Total(alertsReceived) = 1
                 /\ Value(alertsReceived, alertPayload[r].Status) = 1
            ELSE Total(alertsReceived) = 0

\* The step in which the handler of r goes on after a passed validation.
PassesValidated(r) == pc[r] = "Validated" /\ pc'[r] # "Validated"

\* C4, amended: every request whose batch passes validation increments the
\* "batch received" counter exactly once, under the label of the batch
\* status, whether or not delivery then succeeds; no other step changes the
\* counter, so a request that does not reach Parsed or whose batch fails
\* validation does not increment it.
C4_CountedWhenValidated ==
    [][/\ \A r \in RequestIds :
             PassesValidated(r) =>
                 /\ pc'[r] = "Transformed"
                 /\ alertsReceived' = Inc(alertsReceived, alertPayload[r].Status)
       /\ (\A r \in RequestIds : ~PassesValidated(r)) =>
             alertsReceived' = alertsReceived
       /\ \A r \in RequestIds :
             pc'[r] = "Validated" /\ pc[r] # "Validated" => pc[r] = "Parsed"
       /\ \A r \in RequestIds :
             pc[r] = "Transformed" => pc'[r] \in {"Transformed", "Delivered",
                                                   "Responded"}]_vars

\* Witness of C4: the first request was counted although its delivery
\* failed, the second failed validation and left the counter at 1.
C4_Witness ==
    \E r \in RequestIds :
        /\ pc[r] = "Responded"
        /\ served = 2
        /\ err[r].validateAlertPayload # Nil
        /\ Total(alertsReceived) = 1
        /\ Total(providerErrors) = 1

\* C5: every request the handler has answered, whatever its status, has
\* recorded exactly one processing-latency observation.
C5_LatencyObservedOnce ==
    \A r \in RequestIds :
        pc[r] = "Responded" => Total(alertProcessingDuration) = served

\* A batch that satisfies every rule of the validator.
WellFormed(p) ==
    /\ p.Status # ""
    /\ Len(p.Alerts) >= 1
    /\ \A i \in DOMAIN p.Alerts :
          p.Alerts[i].Status # "" /\ DOMAIN p.Alerts[i].Labels # {}

\* C9: whenever validation has passed, so whenever the handler converts the
\* batch or calls provider.Send, the batch has a non-empty status and at
\* least one alert, and every alert has a non-empty status and a label.
C9_WellFormedAfterValidation ==
    \A r \in RequestIds :
        \/ pc[r] \in {"Validated", "Transformed", "Delivered"}
        \/ chatMessage[r] # NoMessage
        \/ sendCalls[r] > 0
        => WellFormed(alertPayload[r])

\* Witness of C9: Send has been called for a batch of two alerts.
C9_Witness ==
    \E r \in RequestIds :
        /\ sendCalls[r] = 1
        /\ Len(alertPayload[r].Alerts) = 2
        /\ chatMessage[r] # NoMessage


(***************************************************************************)
(* The transformer called on its own, twice on the same batch              *)
(***************************************************************************)

GeneratorURLs == {"", "http://prometheus/graph", "http://prometheus/other"}

\* Alerts as the transformer reads them: label and annotation maps of every
\* shape createAlertSection distinguishes, start times and generator URLs.
TransformerAlerts ==
    {Alert("firing", lb, an, ZeroTime, "") :
        lb \in {<<>>, [alertname |-> "HighCPU", severity |-> "critical"]},
        an \in {<<>>, [description |-> ""], [summary |-> "High CPU utilization"],
                [description |-> "CPU usage is high",
                 summary |-> "High CPU utilization"]}}
    \cup {Alert("firing", <<>>, <<>>, t, url) : t \in Times, url \in GeneratorURLs}

\* Batches as the transformer reads them; it is also defined on batches the
\* validator rejects.
TransformerPayloads ==
    {AlertManagerPayload(st, al, <<>>, <<>>, "") :
        st \in {"", "firing", "resolved", "pending"},
        al \in SeqsUpTo(TransformerAlerts, MaxAlerts)}
    \cup {AlertManagerPayload("firing", al, cl, ca, url) :
            al \in SeqsUpTo(TransformerAlerts, MaxAlerts),
            cl \in {<<>>, [alertname |-> "DiskFull", team |-> "platform"]},
            ca \in {<<>>, [summary |-> "Disk is full"]},
            url \in {"", "http://alertmanager"}}

\* call.ret holds the documents of the calls made so far.
InitTransformer ==
    /\ IdleServer
    /\ provider = [kind |-> "MockProvider", shouldFail |-> FALSE]
    /\ workers = 0
    /\ call \in {[fn |-> "none", arg |-> p, ret |-> <<>>] : p \in TransformerPayloads}

CallConvertToGoogleChatFormat ==
    /\ Len(call.ret) < 2
    /\ \E ord \in MapOrders(call.arg) :
          call' = [call EXCEPT !.fn = "convertToGoogleChatFormat",
                               !.ret = Append(@, convertToGoogleChatFormat(call.arg, ord))]
    /\ UNCHANGED <<reqVars, provider, mockMessages, metricVars, served,
                   workers, posts>>

NextTransformer == CallConvertToGoogleChatFormat

SpecTransformer == InitTransformer /\ [][NextTransformer]_vars

(***************************************************************************)
(* GoogleChatProvider.Send called on its own                               *)
(***************************************************************************)

\* GoogleChatProviders of any webhook URL: Send does not validate it.
SendProviders ==
    {[kind |-> "GoogleChatProvider", WebhookURL |-> u] :
        u \in {"https://chat.googleapis.com/v1/spaces/AAAA/messages", BadURL}}

\* The documents of the valid batches of the handler.
SendMessages ==
    UNION {{convertToGoogleChatFormat(p, ord) : ord \in MapOrders(p)} :
             p \in {q \in WebhookPayloads : validateAlertPayload(q) = Nil}}

\* call.arg holds the message and the outcome sharedHTTPClient.Do will have
\* when Send reaches it.
InitSend ==
    /\ IdleServer
    /\ provider \in SendProviders
    /\ workers = 0
    /\ call \in {[fn |-> "none", arg |-> [message |-> m, resp |-> x], ret |-> Nil] :
                   m \in SendMessages, x \in Responses}

CallGoogleChatProviderSend ==
    /\ call.fn = "none"
    /\ LET out == GoogleChatProviderSendCall(provider, call.arg.message,
                                             call.arg.resp)
       IN /\ GoogleChatProviderSendMetrics(out.err, call.arg.message)
          /\ posts' = posts + out.posts
          /\ call' = [call EXCEPT !.fn = "GoogleChatProvider.Send",
                                  !.ret = out.err]
    /\ UNCHANGED <<reqVars, provider, mockMessages, alertsReceived,
                   alertProcessingDuration, served, workers>>

\* A further call of Send on the same provider and message, with any
\* outcome of sharedHTTPClient.Do; call.arg.resp is the outcome of the last
\* call.
CallGoogleChatProviderSendAgain ==
    /\ call.fn = "GoogleChatProvider.Send"
    /\ Total(providerRequestDuration) < MaxRequests
    /\ \E resp \in Responses :
          LET out == GoogleChatProviderSendCall(provider, call.arg.message, resp)
          IN /\ GoogleChatProviderSendMetrics(out.err, call.arg.message)
             /\ posts' = posts + out.posts
             /\ call' = [call EXCEPT !.arg.resp = resp, !.ret = out.err]
    /\ UNCHANGED <<reqVars, provider, mockMessages, alertsReceived,
                   alertProcessingDuration, served, workers>>

NextSend == CallGoogleChatProviderSend \/ CallGoogleChatProviderSendAgain

SpecSend == InitSend /\ [][NextSend]_vars


(***************************************************************************)
(* Claims about the transformer                                            *)
(***************************************************************************)

\* The documents convertToGoogleChatFormat returned for call.arg.
Documents == IF call.fn = "convertToGoogleChatFormat" THEN call.ret ELSE <<>>

\* The sections of the first card of a document.
Sections(doc) == doc.Cards[1].Sections

\* The icon the claim names for a batch status: star, check, generic.
C11_Icon(st) ==
    CASE st = "firing" -> "STAR"
      [] st = "resolved" -> "CHECK"
      [] OTHER -> "DESCRIPTION"

\* C11: the icon of the Summary section's Status widget is the star icon
\* for the batch status "firing", the check icon for "resolved" and the
\* generic (description) icon for any other string.
C11_StatusIcon ==
    \A i \in DOMAIN Documents :
        LET w == Sections(Documents[i])[1].Widgets[1]
        IN /\ w.KeyValue # <<>>
           /\ w.KeyValue[1].TopLabel = "Status"
           /\ w.KeyValue[1].Icon = C11_Icon(call.arg.Status)


\* Scenario A: a firing batch with one alert labeled alertname=HighCPU.
ScenarioA ==
    AlertManagerPayload("firing",
                        <<Alert("firing", [alertname |-> "HighCPU"], <<>>,
                                ZeroTime, "")>>,
                        <<>>, <<>>, "")

\* C12: for every batch the handler converts, the document text is
\* "<status uppercased> Alert: <alert name> (<N> alerts)" with N the number
\* of alerts and is not empty, the card header title is the phrase without
\* the count, the subtitle is "<N> alert(s)", and the document given to the
\* provider is that document; the Scenario A batch is answered 200 when its
\* delivery succeeds, with the text "FIRING Alert: HighCPU (1 alerts)".
C12_DocumentText ==
    \A r \in RequestIds :
        chatMessage[r] # NoMessage =>
            LET p == alertPayload[r]
                doc == chatMessage[r]
                n == ToString(Len(p.Alerts))
                phrase == ToUpper(p.Status) \o " Alert: " \o getAlertName(p)
            IN /\ doc.Text = phrase \o " (" \o n \o " alerts)"
               /\ doc.Text # ""
               /\ Len(doc.Cards) = 1
               /\ doc.Cards[1].Header = <<[Title |-> phrase,
                                           Subtitle |-> n \o " alert(s)"]>>
               /\ (pc[r] = "Delivered" /\ provider.kind = "MockProvider")
                    => mockMessages[Len(mockMessages)].message = doc
               /\ (pc[r] = "Delivered" /\ provider.kind = "GoogleChatProvider")
                    => Value(alertsSent, doc.Text) > 0
               /\ (p = ScenarioA)
                    => /\ doc.Text = "FIRING Alert: HighCPU (1 alerts)"
                       /\ (pc[r] = "Responded")
                            => (status[r] = StatusOK <=> err[r].Send = Nil)

C12_Witness ==
    \E r \in RequestIds :
        /\ pc[r] = "Responded"
        /\ alertPayload[r] = ScenarioA
        /\ status[r] = StatusOK
        /\ provider.kind = "MockProvider"
        /\ mockMessages # <<>>
        /\ mockMessages[Len(mockMessages)].message.Text
             = "FIRING Alert: HighCPU (1 alerts)"


\* The button rows of a section that hold a button with the given text.
ButtonRows(section, text) ==
    {k \in DOMAIN section.Widgets :
        /\ section.Widgets[k].Buttons # <<>>
        /\ \E b \in DOMAIN section.Widgets[k].Buttons :
              section.Widgets[k].Buttons[b].TextButton[1].Text = text}

\* C13: every document has exactly one card whose sections are the
\* "Summary" section, then one section per alert in input order with header
\* "Alert #i" for i = 1..N, then one trailing section with the
\* "View in AlertManager" button if and only if externalURL is non-empty, so
\* 1 + N + (1 if externalURL is non-empty, else 0) sections.
C13_Sections ==
    \A d \in DOMAIN Documents :
        LET p == call.arg
            n == Len(p.Alerts)
            s == Sections(Documents[d])
            trailing == {k \in DOMAIN s : ButtonRows(s[k], "View in AlertManager") # {}}
        IN /\ Len(Documents[d].Cards) = 1
           /\ Len(s) = 1 + n + (IF p.ExternalURL # "" THEN 1 ELSE 0)
           /\ s[1].Header = "Summary"
           /\ \A i \in 1..n :
                 /\ s[i + 1].Header = "Alert #" \o ToString(i)
                 /\ \E o \in IterationOrders(DOMAIN p.Alerts[i].Labels) :
                       s[i + 1].Widgets = createAlertSection(i, p.Alerts[i], o).Widgets
           /\ trailing = (IF p.ExternalURL # "" THEN {n + 2} ELSE {})

\* A document of two different alerts followed by the trailing section.
C13_Witness ==
    \E d \in DOMAIN Documents :
        /\ Len(call.arg.Alerts) = 2
        /\ call.arg.Alerts[1] # call.arg.Alerts[2]
        /\ call.arg.ExternalURL # ""
        /\ Len(Sections(Documents[d])) = 4
        /\ Sections(Documents[d])[3].Header = "Alert #2"


\* The key-value widgets of a section with the given top label.
KeyValues(section, topLabel) ==
    {k \in DOMAIN section.Widgets :
        /\ section.Widgets[k].KeyValue # <<>>
        /\ section.Widgets[k].KeyValue[1].TopLabel = topLabel}

\* An alert with no annotations, no labels, no generatorURL and a zero start
\* time.
BareAlert(alert) ==
    /\ DOMAIN alert.Annotations = {}
    /\ DOMAIN alert.Labels = {}
    /\ alert.GeneratorURL = ""
    /\ alert.StartsAt = ZeroTime

\* C14: every section of every produced card has at least one widget: the
\* Summary section always holds the Status widget, every per-alert section
\* always holds the "Started" widget (for a bare alert it is the only one,
\* with the zero time formatted), and the trailing section holds its button
\* row.
C14_NoEmptySection ==
    \A d \in DOMAIN Documents :
        LET p == call.arg
            n == Len(p.Alerts)
            s == Sections(Documents[d])
        IN /\ \A k \in DOMAIN s : Len(s[k].Widgets) >= 1
           /\ KeyValues(s[1], "Status") = {1}
           /\ \A i \in 1..n :
                 /\ Cardinality(KeyValues(s[i + 1], "Started")) = 1
                 /\ BareAlert(p.Alerts[i]) =>
                       /\ Len(s[i + 1].Widgets) = 1
                       /\ s[i + 1].Widgets[1].KeyValue[1].Content
                            = "0001-01-01T00:00:00Z"
           /\ p.ExternalURL # "" =>
                 ButtonRows(s[Len(s)], "View in AlertManager") = {1}

\* A batch with no common labels or annotations and a bare alert, converted.
C14_Witness ==
    \E d \in DOMAIN Documents :
        /\ DOMAIN call.arg.CommonLabels = {}
        /\ DOMAIN call.arg.CommonAnnotations = {}
        /\ Len(call.arg.Alerts) >= 1
        /\ BareAlert(call.arg.Alerts[1])
        /\ Len(Sections(Documents[d])[1].Widgets) = 1
        /\ Len(Sections(Documents[d])[2].Widgets) = 1


\* The text-paragraph widgets of a section.
TextParagraphs(section) ==
    {k \in DOMAIN section.Widgets : section.Widgets[k].TextParagraph # <<>>}

\* C15: each per-alert section contains at most one text-paragraph widget,
\* placed first: its text is annotations["description"] whenever that key is
\* present (also next to a summary, also when the value is the empty
\* string), otherwise annotations["summary"] when that key is present,
\* otherwise the section has no text-paragraph widget.
C15_TextParagraph ==
    \A d \in DOMAIN Documents :
        \A i \in DOMAIN call.arg.Alerts :
            LET an == call.arg.Alerts[i].Annotations
                section == Sections(Documents[d])[i + 1]
                text == section.Widgets[1].TextParagraph[1].Text
            IN IF "description" \in DOMAIN an
               THEN TextParagraphs(section) = {1} /\ text = an["description"]
               ELSE IF "summary" \in DOMAIN an
               THEN TextParagraphs(section) = {1} /\ text = an["summary"]
               ELSE TextParagraphs(section) = {}

\* Converted: an alert with an empty description, and an alert with both a
\* description and a summary.
C15_Witness ==
    \E d \in DOMAIN Documents :
        \E i, j \in DOMAIN call.arg.Alerts :
            /\ call.arg.Alerts[i].Annotations = [description |-> ""]
            /\ Sections(Documents[d])[i + 1].Widgets[1].TextParagraph
                 = <<[Text |-> ""]>>
            /\ DOMAIN call.arg.Alerts[j].Annotations = {"description", "summary"}
            /\ Sections(Documents[d])[j + 1].Widgets[1].TextParagraph
                 = <<[Text |-> "CPU usage is high"]>>


\* The button-row widgets of a section.
AllButtonRows(section) ==
    {k \in DOMAIN section.Widgets : section.Widgets[k].Buttons # <<>>}

\* C16: the section of an alert with a non-empty generatorURL contains
\* exactly one button-row widget, holding the single button
\* "View in Prometheus" that links to that alert's generatorURL (not to
\* another alert's URL, nor to the batch externalURL); the section of an
\* alert with an empty generatorURL contains no button-row widget.
C16_GeneratorButton ==
    \A d \in DOMAIN Documents :
        \A i \in DOMAIN call.arg.Alerts :
            LET alert == call.arg.Alerts[i]
                section == Sections(Documents[d])[i + 1]
                rows == AllButtonRows(section)
            IN IF alert.GeneratorURL # ""
               THEN /\ Cardinality(rows) = 1
                    /\ \A k \in rows :
                          section.Widgets[k].Buttons
                            = <<[TextButton |-> <<[Text |-> "View in Prometheus",
                                                   OnClick |-> <<[OpenLink |->
                                                      <<[URL |-> alert.GeneratorURL]>>]>>]>>]>>
               ELSE rows = {}

\* Converted: two alerts with different generator URLs in a batch that has
\* an externalURL.
C16_Witness ==
    \E d \in DOMAIN Documents :
        /\ call.arg.ExternalURL # ""
        /\ Len(call.arg.Alerts) >= 2
        /\ call.arg.Alerts[1].GeneratorURL = "http://prometheus/graph"
        /\ call.arg.Alerts[2].GeneratorURL = "http://prometheus/other"
        /\ AllButtonRows(Sections(Documents[d])[3]) # {}


\* A widget with the content of a multi-line key-value blanked.
Blank(w) ==
    IF w.KeyValue # <<>> /\ w.KeyValue[1].ContentMultiline
    THEN [w EXCEPT !.KeyValue[1].Content = ""]
    ELSE w

\* A document with the multi-line contents blanked: its text, card header,
\* sections and their headers, and every widget's kind, label, icon,
\* timestamp and URL.
Skeleton(doc) ==
    [Text |-> doc.Text,
     Cards |-> [c \in DOMAIN doc.Cards |->
        [Header |-> doc.Cards[c].Header,
         Sections |-> [k \in DOMAIN doc.Cards[c].Sections |->
            [Header |-> doc.Cards[c].Sections[k].Header,
             Widgets |-> [w \in DOMAIN doc.Cards[c].Sections[k].Widgets |->
                            Blank(doc.Cards[c].Sections[k].Widgets[w])]]]]]]

RECURSIVE Concat(_)
Concat(lines) == IF lines = <<>> THEN "" ELSE Head(lines) \o Concat(Tail(lines))

\* content is one bulleted "key: value" line per key of data, in some order.
OneLinePerKey(content, data) ==
    \E o \in IterationOrders(DOMAIN data) :
        content = Concat([i \in DOMAIN o |->
                            Bullet \o " " \o o[i] \o ": " \o data[o[i]] \o "\n"])

\* The multi-line contents of a section under a top label hold one line per
\* key of data.
Lists(section, topLabel, data) ==
    \A k \in KeyValues(section, topLabel) :
        OneLinePerKey(section.Widgets[k].KeyValue[1].Content, data)

\* C17: two calls of convertToGoogleChatFormat on the same batch yield
\* documents that agree on everything but the multi-line contents "Common
\* Labels", "Common Annotations" and "Labels", and each of those holds
\* exactly one line per key of its map, in some order.
C17_Pure ==
    /\ \A d, e \in DOMAIN Documents : Skeleton(Documents[d]) = Skeleton(Documents[e])
    /\ \A d \in DOMAIN Documents :
          LET p == call.arg
              s == Sections(Documents[d])
          IN /\ Lists(s[1], "Common Labels", p.CommonLabels)
             /\ Lists(s[1], "Common Annotations", p.CommonAnnotations)
             /\ \A i \in DOMAIN p.Alerts : Lists(s[i + 1], "Labels", p.Alerts[i].Labels)
             /\ \A k \in DOMAIN s : \A w \in DOMAIN s[k].Widgets :
                   Blank(s[k].Widgets[w]) # s[k].Widgets[w]
                     => s[k].Widgets[w].KeyValue[1].TopLabel
                          \in {"Common Labels", "Common Annotations", "Labels"}

\* Two calls on one batch returned different documents.
C17_Witness ==
    /\ Len(Documents) = 2
    /\ Documents[1] # Documents[2]
    /\ DOMAIN call.arg.CommonLabels = {"alertname", "team"}


(***************************************************************************)
(* Claims about delivery                                                   *)
(***************************************************************************)

C19_SendSucceeds ==
    call.fn = "GoogleChatProvider.Send" =>
        LET resp == call.arg.resp
            serializes == MarshalError(call.arg.message) = Nil
            built == NewRequestError(provider.WebhookURL) = Nil
        IN /\ call.ret = Nil
                <=> /\ serializes
                    /\ built
                    /\ resp.err = Nil
                    /\ resp.StatusCode < 300
           /\ \A other \in Responses :
                 (other.err = resp.err /\ other.StatusCode = resp.StatusCode)
                   => ((GoogleChatProviderSendCall(provider, call.arg.message,
                                                   other).err = Nil)
                         <=> (call.ret = Nil))

\* A Send that got a 3xx response whose body could not be read.
C19_Witness ==
    /\ call.fn = "GoogleChatProvider.Send"
    /\ provider.WebhookURL # BadURL
    /\ call.arg.resp.StatusCode = 300
    /\ ~call.arg.resp.readable
    /\ call.ret # Nil


(***************************************************************************)
(* Claims about the handler's progress                                     *)
(***************************************************************************)

\* The position of a step in the order of the handler.
Rank(step) ==
    CASE step = "Idle" -> 0
      [] step = "Received" -> 1
      [] step = "MethodChecked" -> 2
      [] step = "ContentTypeChecked" -> 3
      [] step = "BodyRead" -> 4
      [] step = "Parsed" -> 5
      [] step = "Validated" -> 6
      [] step = "Transformed" -> 7
      [] step = "Delivered" -> 8
      [] step = "Responded" -> 9

\* A handler moves to the next step of the order or straight to Responded;
\* it writes its one status on reaching Responded, 200 from Delivered and an
\* error status from anywhere else, and writes nothing before or after.
C20_Forward(r) ==
    /\ pc'[r] # pc[r] =>
          \/ pc[r] = "Idle" /\ pc'[r] = "Received"
          \/ pc[r] = "Responded" /\ pc'[r] = "Idle"
          \/ /\ pc[r] \notin {"Idle", "Responded"}
             /\ Rank(pc'[r]) = Rank(pc[r]) + 1 \/ pc'[r] = "Responded"
    /\ (pc'[r] = "Responded" /\ pc[r] # "Responded") =>
          /\ status[r] = 0
          /\ status'[r] \in {StatusOK, StatusBadRequest, StatusMethodNotAllowed,
                             StatusInternalServerError}
          /\ status'[r] = StatusOK <=> pc[r] = "Delivered"
    /\ (pc'[r] # "Responded" \/ pc[r] = "Responded") =>
          \/ status'[r] = status[r]
          \/ pc'[r] = "Idle" /\ status'[r] = 0

\* C20: every request the handler starts on eventually reaches Responded;
\* its steps are taken forward only, in the order Received, MethodChecked,
\* ContentTypeChecked, BodyRead, Parsed, Validated, Transformed, Delivered,
\* Responded, a failure going straight to Responded; exactly one HTTP status
\* is written, on reaching Responded.
C20_Answered ==
    /\ [][\A r \in RequestIds : C20_Forward(r)]_vars
    /\ \A r \in RequestIds : (pc[r] = "Received") ~> (pc[r] = "Responded")

\* A request whose delivery failed, answered from Transformed.
C20_Witness ==
    \E r \in RequestIds :
        /\ pc[r] = "Responded"
        /\ err[r].Send # Nil
        /\ status[r] = StatusInternalServerError
        /\ chatMessage[r] # NoMessage


(***************************************************************************)
(* Claims about concurrent requests                                        *)
(***************************************************************************)

\* The status of the handler of r as a function of r's own method, header,
\* body read and delivery outcome.
OwnStatus(r) ==
    IF req[r].Method # MethodPost THEN StatusMethodNotAllowed
    ELSE IF ~Contains(req[r].ContentType, JSONType) THEN StatusBadRequest
    ELSE IF err[r].ReadAll # Nil THEN StatusInternalServerError
    ELSE IF body[r].kind = "empty" THEN StatusBadRequest
    ELSE IF Unmarshal(body[r]).err # Nil THEN StatusBadRequest
    ELSE IF validateAlertPayload(Unmarshal(body[r]).payload) # Nil
         THEN StatusBadRequest
    ELSE IF err[r].Send # Nil THEN StatusInternalServerError
    ELSE StatusOK

\* The documents the body of r converts to.
OwnDocuments(r) ==
    LET p == Unmarshal(body[r]).payload
    IN {convertToGoogleChatFormat(p, ord) : ord \in MapOrders(p)}

\* The locals of the handler of r.
Locals(r) ==
    <<pc[r], req[r], body[r], alertPayload[r], chatMessage[r], err[r],
      sendCalls[r], status[r], respBody[r]>>

\* A metric vector only grows: no label is lost, no count decreases.
Monotone(old, new) ==
    \A l \in DOMAIN old : l \in DOMAIN new /\ new[l] >= old[l]

\* A step of the server runs one handler: it leaves the locals of every
\* other handler alone, and of what the handlers share it changes only
\* metrics, which grow, and the messages a MockProvider collects, to which
\* it appends the handler's own document.
C21_OneHandlerStep ==
    /\ \E r \in RequestIds :
          /\ \A q \in RequestIds \ {r} : Locals(q)' = Locals(q)
          /\ mockMessages' # mockMessages =>
                /\ provider.kind = "MockProvider"
                /\ mockMessages' = Append(mockMessages,
                                          [message |-> chatMessage[r],
                                           reqID |-> req[r].reqID])
                /\ chatMessage[r] \in OwnDocuments(r)
    /\ provider' = provider
    /\ Monotone(alertsReceived, alertsReceived')
    /\ Monotone(alertsSent, alertsSent')
    /\ Monotone(providerErrors, providerErrors')
    /\ Monotone(providerRequestDuration, providerRequestDuration')
    /\ Monotone(alertProcessingDuration, alertProcessingDuration')

\* C21: under any interleaving of concurrently handled requests the
\* handlers write no shared state but the metrics, which only grow (and the
\* message list of a MockProvider); the status a request is answered with
\* and the document it passes to Send are functions of that request's own
\* method, header, body and delivery outcome.
C21_Isolation ==
    /\ [](\A r \in RequestIds :
            /\ pc[r] = "Responded" => status[r] = OwnStatus(r)
            /\ chatMessage[r] # NoMessage => chatMessage[r] \in OwnDocuments(r))
    /\ [][C21_OneHandlerStep]_vars

\* Two requests in flight at once, with different documents and different
\* delivery outcomes.
C21_Witness ==
    /\ pc[1] = "Responded" /\ status[1] = StatusOK
    /\ pc[2] = "Responded" /\ status[2] = StatusInternalServerError
    /\ chatMessage[1] # NoMessage
    /\ chatMessage[2] # NoMessage
    /\ chatMessage[1] # chatMessage[2]


(***************************************************************************)
(* Configuration: LoadConfig and Config.Validate                           *)
(***************************************************************************)

\* A webhook URL is held as its pieces, scheme prefix first, so that
\* strings.HasPrefix is a test on the first piece; the empty string is <<>>.
HasPrefix(s, prefix) == s # <<>> /\ s[1] = prefix

\* The string a sequence of pieces spells.
RECURSIVE String(_)
String(s) == IF s = <<>> THEN "" ELSE Head(s) \o String(Tail(s))

\* strings.ToLower on the log levels of the model.
ToLower(s) ==
    CASE s = "DEBUG" -> "debug"
      [] s = "INFO" -> "info"
      [] s = "Error" -> "error"
      [] s = "TRACE" -> "trace"
      [] OTHER -> s

Config(addr, url, level) ==
    [Server |-> [ListenAddr |-> addr],
     GoogleChat |-> [WebhookURL |-> url],
     Logging |-> [Level |-> level]]

\* var config Config
ZeroConfig == Config("", <<>>, "")

WebhookPath == "chat.googleapis.com/v1/spaces/AAAA/messages"

WebhookURLs ==
    {<<>>,
     <<"https://", WebhookPath>>,
     <<"http://", WebhookPath>>,
     <<"HTTPS://", WebhookPath>>,
     <<WebhookPath>>,
     <<"https://", "chat.googleapis.com/v1/spaces/%zz/messages">>}

\* The configuration file at path: missing, not valid TOML, or a table that
\* sets some of the three keys.
NoFile == [exists |-> FALSE, decodes |-> FALSE, values |-> <<>>]

ConfigFiles ==
    {NoFile, [exists |-> TRUE, decodes |-> FALSE, values |-> <<>>]}
    \cup {[exists |-> TRUE, decodes |-> TRUE, values |-> a @@ u @@ l] :
            a \in Maps({"listen_addr"}, {"", ":8080"}),
            u \in {<<>>} \cup {[webhook_url |-> x] : x \in WebhookURLs},
            l \in Maps({"level"}, {"debug", "INFO", "warn"})}

\* The environment: the variables that are set, each with its value.
NoEnv == <<>>

Environments ==
    {a @@ u @@ l :
        a \in Maps({"LISTEN_ADDR"}, {"", ":9090"}),
        u \in {<<>>} \cup {[GOOGLE_CHAT_WEBHOOK_URL |-> x] :
                             x \in {<<>>, <<"https://", WebhookPath>>,
                                    <<"http://", WebhookPath>>}},
        l \in Maps({"LOG_LEVEL"}, {"", "DEBUG", "TRACE"})}

\* os.Getenv(name): the value, or the empty string when name is not set.
Getenv(env, name, empty) == IF name \in DOMAIN env THEN env[name] ELSE empty

\* toml.DecodeFile into a config: the keys of the file replace its fields.
DecodeFile(file, c) ==
    Config(Field(file.values, "listen_addr", c.Server.ListenAddr),
           Field(file.values, "webhook_url", c.GoogleChat.WebhookURL),
           Field(file.values, "level", c.Logging.Level))

\* LoadConfig(path) with the file at path and the environment of the
\* process: the config and the error it returns.
\* LoadConfig letting a LISTEN_ADDR that is set but empty override the file.
LoadConfig_EmptyOverrides(file, env) ==
    LET defaults == Config(":7000", <<>>, "info")
        decoded == IF file.exists THEN DecodeFile(file, defaults) ELSE defaults
        addr == Getenv(env, "LISTEN_ADDR", "")
        url == Getenv(env, "GOOGLE_CHAT_WEBHOOK_URL", <<>>)
        level == Getenv(env, "LOG_LEVEL", "")
    IN IF file.exists /\ ~file.decodes
       THEN [config |-> defaults,
             err |-> "failed to decode config file: toml: invalid syntax"]
       ELSE [config |->
                Config(IF "LISTEN_ADDR" \in DOMAIN env THEN addr ELSE decoded.Server.ListenAddr,
                       IF url # <<>> THEN url ELSE decoded.GoogleChat.WebhookURL,
                       IF level # "" THEN ToLower(level)
                       ELSE decoded.Logging.Level),
             err |-> Nil]

LoadConfig(file, env) ==
    LET defaults == Config(":7000", <<>>, "info")
        decoded == IF file.exists THEN DecodeFile(file, defaults) ELSE defaults
        addr == Getenv(env, "LISTEN_ADDR", "")
        url == Getenv(env, "GOOGLE_CHAT_WEBHOOK_URL", <<>>)
        level == Getenv(env, "LOG_LEVEL", "")
    IN IF file.exists /\ ~file.decodes
       THEN [config |-> defaults,
             err |-> "failed to decode config file: toml: invalid syntax"]
       ELSE [config |->
                Config(IF addr # "" THEN addr ELSE decoded.Server.ListenAddr,
                       IF url # <<>> THEN url ELSE decoded.GoogleChat.WebhookURL,
                       IF level # "" THEN ToLower(level)
                       ELSE decoded.Logging.Level),
             err |-> Nil]

\* (c *Config) Validate()
\* Config.Validate without the check of the https:// prefix.
ConfigValidate_AnyScheme(c) ==
    IF c.GoogleChat.WebhookURL = <<>>
    THEN "Google Chat webhook URL is required"
    ELSE IF NewRequestError(String(c.GoogleChat.WebhookURL)) # Nil
    THEN "invalid webhook URL format: "
         \o NewRequestError(String(c.GoogleChat.WebhookURL))
    ELSE IF FALSE
    THEN "Google Chat webhook URL must use HTTPS"
    ELSE IF c.Server.ListenAddr = ""
    THEN "server listen address is required"
    ELSE IF ToLower(c.Logging.Level) \notin {"debug", "info", "error"}
    THEN "invalid log level: " \o c.Logging.Level
    ELSE Nil

ConfigValidate(c) ==
    IF c.GoogleChat.WebhookURL = <<>>
    THEN "Google Chat webhook URL is required"
    ELSE IF NewRequestError(String(c.GoogleChat.WebhookURL)) # Nil
    THEN "invalid webhook URL format: "
         \o NewRequestError(String(c.GoogleChat.WebhookURL))
    ELSE IF ~HasPrefix(c.GoogleChat.WebhookURL, "https://")
    THEN "Google Chat webhook URL must use HTTPS"
    ELSE IF c.Server.ListenAddr = ""
    THEN "server listen address is required"
    ELSE IF ToLower(c.Logging.Level) \notin {"debug", "info", "error"}
    THEN "invalid log level: " \o c.Logging.Level
    ELSE Nil


(***************************************************************************)
(* LoadConfig called on its own                                            *)
(***************************************************************************)

InitLoadConfig ==
    /\ IdleServer
    /\ provider = [kind |-> "MockProvider", shouldFail |-> FALSE]
    /\ workers = 0
    /\ call \in {[fn |-> "none", arg |-> [file |-> f, env |-> e], ret |-> Nil] :
                   f \in ConfigFiles, e \in Environments}

CallLoadConfig ==
    /\ call.fn = "none"
    /\ call' = [call EXCEPT !.fn = "LoadConfig",
                            !.ret = LoadConfig(call.arg.file, call.arg.env)]
    /\ UNCHANGED <<reqVars, provider, mockMessages, metricVars, served,
                   workers, posts>>

NextLoadConfig == CallLoadConfig

SpecLoadConfig == InitLoadConfig /\ [][NextLoadConfig]_vars

(***************************************************************************)
(* main: from the start of the process to the serving of /webhook          *)
(***************************************************************************)

\* The provider variable of main before its assignment.
NoProvider == [kind |-> "none"]

\* What main finds: a configuration file with an empty environment, or an
\* environment without a file.
StartupArgs ==
    {[file |-> f, env |-> NoEnv] : f \in ConfigFiles}
    \cup {[file |-> NoFile, env |-> e] : e \in Environments}

\* The one read of the requests served after startup: a valid batch.
StartupReads == {[err |-> Nil, body |-> [kind |-> "object", doc |-> Marshal(ScenarioA)]]}

\* call.fn is the last call main made, call.ret the config it holds and the
\* error of that call; no handler is registered and nothing is served.
InitStartup ==
    /\ IdleServer
    /\ provider = NoProvider
    /\ workers = 0
    /\ call \in {[fn |-> "main", arg |-> a, ret |-> [config |-> ZeroConfig, err |-> Nil]] :
                   a \in StartupArgs}

\* cfg, err := LoadConfig(*configPath); log.Fatalf on an error.
MainLoadConfig ==
    /\ call.fn = "main"
    /\ LET loaded == LoadConfig(call.arg.file, call.arg.env)
       IN call' = [call EXCEPT !.fn = IF loaded.err # Nil THEN "os.Exit"
                                      ELSE "LoadConfig",
                               !.ret = loaded]
    /\ UNCHANGED <<reqVars, provider, mockMessages, metricVars, served,
                   workers, posts>>

\* config.Validate(); os.Exit(1) on an error.
MainValidate ==
    /\ call.fn = "LoadConfig"
    /\ LET e == ConfigValidate(call.ret.config)
       IN call' = [call EXCEPT !.fn = IF e # Nil THEN "os.Exit" ELSE "Validate",
                               !.ret.err = e]
    /\ UNCHANGED <<reqVars, provider, mockMessages, metricVars, served,
                   workers, posts>>

\* The provider is built, /webhook is registered and the server listens.
MainListenAndServe ==
    /\ call.fn = "Validate"
    /\ provider' = [kind |-> "GoogleChatProvider",
                    WebhookURL |-> String(call.ret.config.GoogleChat.WebhookURL)]
    /\ workers' = 1
    /\ call' = [call EXCEPT !.fn = "ListenAndServe"]
    /\ UNCHANGED <<reqVars, mockMessages, metricVars, served, posts>>

NextStartup ==
    \/ MainLoadConfig
    \/ MainValidate
    \/ MainListenAndServe
    \/ \E r \in RequestIds :
          \/ Receive(r)
          \/ CheckMethod(r)
          \/ CheckContentType(r)
          \/ ReadBodyOf(r, StartupReads)
          \/ Parse(r)
          \/ Validate(r)
          \/ Transform(r)
          \/ GoogleChatProviderSend(r)
          \/ Respond(r)
          \/ Return(r)

SpecStartup == InitStartup /\ [][NextStartup]_vars


(***************************************************************************)
(* Claims about startup and configuration                                  *)
(***************************************************************************)

\* A configuration C22 says startup must refuse.
Refused(c) ==
    \/ c.GoogleChat.WebhookURL = <<>>
    \/ ~HasPrefix(c.GoogleChat.WebhookURL, "https://")
    \/ c.Server.ListenAddr = ""
    \/ ToLower(c.Logging.Level) \notin {"debug", "info", "error"}

\* The process has a provider, serves, or has a request in hand.
Serving ==
    \/ provider # NoProvider
    \/ workers > 0
    \/ \E r \in RequestIds : pc[r] # "Idle"

\* C22: the process serves /webhook only after the loaded configuration has
\* passed Config.Validate; when loading fails, or the loaded webhook URL is
\* empty or does not start with https://, or the listen address is empty, or
\* the log level is none of debug, info, error (in any case of letters), it
\* never serves and exits once Validate has been called; every POST is sent
\* by a GoogleChatProvider whose webhook URL starts with https://.
C22_ValidatedBeforeServing ==
    /\ [](LET loaded == LoadConfig(call.arg.file, call.arg.env)
          IN /\ Serving =>
                   /\ call.fn = "ListenAndServe"
                   /\ call.ret.config = loaded.config
                   /\ ConfigValidate(call.ret.config) = Nil
             /\ (loaded.err # Nil \/ Refused(loaded.config)) =>
                   /\ ~Serving
                   /\ call.fn \in {"main", "LoadConfig", "os.Exit"}
                   /\ (call.fn = "LoadConfig") => loaded.err = Nil)
    /\ [][posts' # posts =>
            /\ provider.kind = "GoogleChatProvider"
            /\ \E u \in WebhookURLs :
                  /\ HasPrefix(u, "https://")
                  /\ provider.WebhookURL = String(u)]_vars

\* A process started from a configuration file has sent a document.
C22_Witness ==
    /\ call.fn = "ListenAndServe"
    /\ call.arg.file.exists
    /\ posts > 0
    /\ provider.WebhookURL = "https://chat.googleapis.com/v1/spaces/AAAA/messages"


\* The value LoadConfig must give a setting: that of the environment
\* variable when it is set and not the empty string, else that of the file's
\* key when the file exists and sets it, else the built-in default.
Resolved(file, env, variable, key, empty, default) ==
    IF variable \in DOMAIN env /\ env[variable] # empty
    THEN env[variable]
    ELSE IF file.exists /\ key \in DOMAIN file.values
    THEN file.values[key]
    ELSE default

\* C23: LoadConfig resolves listen address, webhook URL and log level with
\* the precedence environment variable > configuration file > built-in
\* default (":7000", no URL, "info"): a non-empty variable overrides the
\* file's value (LOG_LEVEL in lower case), an unset or empty variable leaves
\* the file's value or the default in place, and a missing configuration
\* file is not an error.
C23_Precedence ==
    call.fn = "LoadConfig" =>
        LET file == call.arg.file
            env == call.arg.env
            c == call.ret.config
            level == Resolved(file, env, "LOG_LEVEL", "level", "", "info")
        IN /\ ~file.exists => call.ret.err = Nil
           /\ call.ret.err = Nil <=> (file.exists => file.decodes)
           /\ call.ret.err = Nil =>
                 /\ c.Server.ListenAddr
                      = Resolved(file, env, "LISTEN_ADDR", "listen_addr", "",
                                 ":7000")
                 /\ c.GoogleChat.WebhookURL
                      = Resolved(file, env, "GOOGLE_CHAT_WEBHOOK_URL",
                                 "webhook_url", <<>>, <<>>)
                 /\ c.Logging.Level
                      = (IF Getenv(env, "LOG_LEVEL", "") # "" THEN ToLower(level)
                         ELSE level)

\* Loaded: a file that sets all three keys, under an environment whose
\* LISTEN_ADDR is set, whose LOG_LEVEL is empty and whose URL is not set.
C23_Witness ==
    /\ call.fn = "LoadConfig"
    /\ DOMAIN call.arg.file.values = {"listen_addr", "webhook_url", "level"}
    /\ DOMAIN call.arg.env = {"LISTEN_ADDR", "LOG_LEVEL"}
    /\ call.arg.env["LISTEN_ADDR"] = ":9090"
    /\ call.arg.env["LOG_LEVEL"] = ""
    /\ call.ret.config.Server.ListenAddr = ":9090"
    /\ call.ret.config.Logging.Level = "INFO"
    /\ call.ret.config.GoogleChat.WebhookURL = call.arg.file.values["webhook_url"]


(***************************************************************************)
(* Claims about the outcome counters of Send                               *)
(***************************************************************************)

\* C24: each call of GoogleChatProvider.Send increments exactly one of the
\* two outcome counters, by exactly 1: alertsSent (under the message text)
\* if and only if it returns nil, providerErrors (under "google_chat") if and
\* only if it returns an error, on whichever path; over any sequence of
\* calls, sent + errors is the number of calls (one duration observation is
\* made per call).
C24_OneOutcomeCounter ==
    /\ [](Total(alertsSent) + Total(providerErrors)
            = Total(providerRequestDuration))
    /\ [][LET sent == Total(alertsSent') - Total(alertsSent)
              errors == Total(providerErrors') - Total(providerErrors)
          IN /\ Total(providerRequestDuration') = Total(providerRequestDuration) + 1
             /\ call'.fn = "GoogleChatProvider.Send"
             /\ IF call'.ret = Nil
                THEN /\ sent = 1 /\ errors = 0
                     /\ alertsSent' = Inc(alertsSent, call.arg.message.Text)
                     /\ providerErrors' = providerErrors
                ELSE /\ sent = 0 /\ errors = 1
                     /\ providerErrors' = Inc(providerErrors, "google_chat")
                     /\ alertsSent' = alertsSent]_vars

\* Two calls of Send, one delivered and one failed.
C24_Witness ==
    /\ call.fn = "GoogleChatProvider.Send"
    /\ Total(providerRequestDuration) = 2
    /\ Total(alertsSent) = 1
    /\ Total(providerErrors) = 1

====
